---- MODULE Spec2Model ----
(***************************************************************************)
(* Interval algebra of gpt-common (src/gpt-common/src/interval.rs):        *)
(* Boundary, Interval and MultiInterval with intersects_with, intersect    *)
(* and inverse.  f32 endpoints are modelled by the integers                *)
(* NEG_INFINITY..INFINITY, whose order is the order of the floats they     *)
(* stand for (NaN is not modelled: no operation here produces one).        *)
(***************************************************************************)
EXTENDS Integers, Sequences, FiniteSets, TLC

VARIABLES self, other, ret, calls

vars == <<self, other, ret, calls>>

(* ---------------------------- bounds ----------------------------------- *)

\* largest finite endpoint; the finite endpoints are 0..MaxVal
MaxVal == 1
\* longest MultiInterval drawn as the receiver of the axioms pipeline
MaxLen == 3
\* longest receiver / argument drawn for the two-operand operations
MaxSelfLen == 2
MaxOtherLen == 2

(* ---------------------------- values ----------------------------------- *)

f32_NEG_INFINITY == 0 - 1
f32_INFINITY == MaxVal + 1
Value == f32_NEG_INFINITY .. f32_INFINITY

Open == "Open"
Closed == "Closed"
Boundary == {Open, Closed}

Boundary_inverse(b) == IF b = Open THEN Closed ELSE Open

Interval(lo_boundary, lo, hi, hi_boundary) ==
    [lo_boundary |-> lo_boundary, lo |-> lo, hi |-> hi, hi_boundary |-> hi_boundary]

None == [some |-> FALSE]
Some(v) == [some |-> TRUE, val |-> v]

Err(e) == [ok |-> FALSE, err |-> e]
Ok(v) == [ok |-> TRUE, val |-> v]

(* ---------------------------- Interval --------------------------------- *)

Interval_contains_point(iv, point) ==
    \/ (iv.lo < point /\ point < iv.hi)
    \/ (iv.lo = point /\ iv.lo_boundary = Closed)
    \/ (iv.hi = point /\ iv.hi_boundary = Closed)

Interval_new_RejectPoint(lo_boundary, lo, hi, hi_boundary) ==
    IF lo >= hi
    THEN Err("LoIsGreaterThanHi")
    ELSE Ok(Interval(lo_boundary, lo, hi, hi_boundary))

Interval_new(lo_boundary, lo, hi, hi_boundary) ==
    IF lo > hi
    THEN Err("LoIsGreaterThanHi")
    ELSE Ok(Interval(lo_boundary, lo, hi, hi_boundary))

Interval_intersects_with_NoTouch(a, b) ==
    ~ (a.lo > b.hi \/ b.lo > a.hi)

Interval_intersects_with(a, b) ==
    LET doesnt_intersect ==
            \/ (a.lo > b.hi \/ b.lo > a.hi)
            \/ (a.lo = b.hi /\ (a.lo_boundary = Open \/ b.hi_boundary = Open))
            \/ (b.lo = a.hi /\ (b.lo_boundary = Open \/ a.hi_boundary = Open))
    IN  ~ doesnt_intersect

Interval_intersect_SmallerLo(a, b) ==
    IF ~ Interval_intersects_with(a, b)
    THEN None
    ELSE LET bigger_lo == IF a.lo < b.lo THEN a ELSE b
             smaller_hi == IF a.hi < b.hi THEN a ELSE b
         IN  Some(Interval(bigger_lo.lo_boundary, bigger_lo.lo,
                           smaller_hi.hi, smaller_hi.hi_boundary))

Interval_intersect(a, b) ==
    IF ~ Interval_intersects_with(a, b)
    THEN None
    ELSE LET bigger_lo == IF a.lo > b.lo THEN a ELSE b
             smaller_hi == IF a.hi < b.hi THEN a ELSE b
         IN  Some(Interval(bigger_lo.lo_boundary, bigger_lo.lo,
                           smaller_hi.hi, smaller_hi.hi_boundary))

(* -------------------------- MultiInterval ------------------------------ *)

MultiInterval_new(lo_boundary, lo, hi, hi_boundary) ==
    LET r == Interval_new(lo_boundary, lo, hi, hi_boundary)
    IN  IF r.ok THEN Ok(<<r.val>>) ELSE r

highest_hi(m) == m[Len(m)].hi
lowest_lo(m) == m[1].lo
highest_boundary(m) == m[Len(m)].hi_boundary
lowest_boundary(m) == m[1].lo_boundary

Full == Interval(Open, f32_NEG_INFINITY, f32_INFINITY, Open)

\* first phase of inverse: the tail below the lowest interval
left_tail(m) ==
    IF lowest_lo(m) # f32_NEG_INFINITY
    THEN <<Interval(Open, f32_NEG_INFINITY, lowest_lo(m),
                    Boundary_inverse(lowest_boundary(m)))>>
    ELSE <<>>

gaps_KeepBoundaries(m) ==
    [i \in 1 .. (Len(m) - 1) |->
        Interval(m[i].hi_boundary, m[i].hi, m[i + 1].lo, m[i + 1].lo_boundary)]

\* second phase of inverse: windows(2) mapped to the gap between neighbours
gaps(m) ==
    [i \in 1 .. (Len(m) - 1) |->
        Interval(Boundary_inverse(m[i].hi_boundary), m[i].hi,
                 m[i + 1].lo, Boundary_inverse(m[i + 1].lo_boundary))]

right_tail_Always(m) ==
    <<Interval(Boundary_inverse(highest_boundary(m)), highest_hi(m),
               f32_INFINITY, Open)>>

\* third phase of inverse: the tail above the highest interval
right_tail(m) ==
    IF highest_hi(m) # f32_INFINITY
    THEN <<Interval(Boundary_inverse(highest_boundary(m)), highest_hi(m),
                    f32_INFINITY, Open)>>
    ELSE <<>>

MultiInterval_inverse(m) ==
    IF m = <<>>
    THEN <<Full>>
    ELSE left_tail(m) \o gaps(m) \o right_tail(m)

MultiInterval_intersects_with(s, t) ==
    \E i \in 1 .. Len(s) : \E j \in 1 .. Len(t) :
        Interval_intersects_with(s[i], t[j])

\* self.intervals.iter().flat_map(|x| other.intervals.iter().map(|y| x.intersect(y)))
\* .flatten(): the present pairwise intersections, receiver-major
pairwise(s, t) ==
    LET n == Len(s)
        m == Len(t)
        opt(k) == Interval_intersect(s[((k - 1) \div m) + 1], t[((k - 1) % m) + 1])
        all == [k \in 1 .. (n * m) |-> opt(k)]
        present(o) == o.some
        kept == SelectSeq(all, present)
    IN  [k \in 1 .. Len(kept) |-> kept[k].val]

IsSortedByLo(q) ==
    \A i \in 1 .. (Len(q) - 1) : q[i].lo <= q[i + 1].lo

sort_unstable_by_lo_Skip(q) == {q}

\* sort_unstable_by on lo: every ordering of q that ascends by lo (the order
\* of equal keys is not fixed by the sort)
sort_unstable_by_lo(q) ==
    IF Len(q) = 0
    THEN {q}
    ELSE {r \in {[i \in 1 .. Len(q) |-> q[p[i]]] : p \in Permutations(1 .. Len(q))} :
            IsSortedByLo(r)}

MultiInterval_intersect_AlwaysSome(s, t) ==
    {Some(r) : r \in sort_unstable_by_lo(pairwise(s, t))}

\* the set of values MultiInterval::intersect can return
MultiInterval_intersect(s, t) ==
    {IF r = <<>> THEN None ELSE Some(r) : r \in sort_unstable_by_lo(pairwise(s, t))}

(* --------------------------- input domains ----------------------------- *)

\* the Intervals Interval::new accepts
ValidInterval ==
    {iv \in [lo_boundary : Boundary, lo : Value, hi : Value, hi_boundary : Boundary] :
        iv.lo <= iv.hi}

\* "intervals is always sorted in ascending order and there are no
\* overlapping intervals"
Invariant(m) ==
    /\ IsSortedByLo(m)
    /\ \A i \in 1 .. Len(m) : \A j \in 1 .. Len(m) :
          i # j => ~ Interval_intersects_with(m[i], m[j])

\* an endpoint at an infinity carries an Open boundary
Convention(m) ==
    \A i \in 1 .. Len(m) :
        /\ m[i].lo \in {f32_NEG_INFINITY, f32_INFINITY} => m[i].lo_boundary = Open
        /\ m[i].hi \in {f32_NEG_INFINITY, f32_INFINITY} => m[i].hi_boundary = Open

\* the valid Intervals that may follow m without breaking its invariant
Followers(m) ==
    {x \in ValidInterval :
        /\ m # <<>> => m[Len(m)].lo <= x.lo
        /\ \A i \in 1 .. Len(m) : ~ Interval_intersects_with(m[i], x)}

(* ------------------------------ calls ---------------------------------- *)

Call(fn, args) == [fn |-> fn, args |-> args]
Fns == [i \in 1 .. Len(calls) |-> calls[i].fn]

\* the receiver is collected one Interval at a time, as multiint collects the
\* parsed Intervals into MultiInterval { intervals }, keeping the invariant
Push ==
    /\ calls = <<>>
    /\ Len(self) < MaxLen
    /\ \E x \in Followers(self) : self' = Append(self, x)
    /\ UNCHANGED <<other, ret, calls>>

\* the same for the receiver of a two-operand call, before its argument
PushSelf ==
    /\ calls = <<>>
    /\ other = <<>>
    /\ Len(self) < MaxSelfLen
    /\ \E x \in Followers(self) : self' = Append(self, x)
    /\ UNCHANGED <<other, ret, calls>>

\* the same for the argument of a two-operand call
PushOther ==
    /\ calls = <<>>
    /\ Len(other) < MaxOtherLen
    /\ \E y \in Followers(other) : other' = Append(other, y)
    /\ UNCHANGED <<self, ret, calls>>

\* Interval::new(lo_boundary, lo, hi, hi_boundary)
IntervalNew ==
    /\ calls = <<>>
    /\ \E lb \in Boundary, hb \in Boundary, lo \in Value, hi \in Value :
          /\ ret' = Interval_new(lb, lo, hi, hb)
          /\ calls' = <<Call("Interval::new", <<lb, lo, hi, hb>>)>>
    /\ UNCHANGED <<self, other>>

\* MultiInterval::new(lo_boundary, lo, hi, hi_boundary)
MultiIntervalNew ==
    /\ calls = <<>>
    /\ \E lb \in Boundary, hb \in Boundary, lo \in Value, hi \in Value :
          /\ ret' = MultiInterval_new(lb, lo, hi, hb)
          /\ calls' = <<Call("MultiInterval::new", <<lb, lo, hi, hb>>)>>
    /\ UNCHANGED <<self, other>>

\* self.intersects_with(&other) on two Intervals
IntervalIntersectsWith ==
    /\ calls = <<>>
    /\ ret' = Interval_intersects_with(self, other)
    /\ calls' = <<Call("Interval::intersects_with", <<>>)>>
    /\ UNCHANGED <<self, other>>

\* self.intersect(&other) on two Intervals
IntervalIntersect ==
    /\ calls = <<>>
    /\ ret' = Interval_intersect(self, other)
    /\ calls' = <<Call("Interval::intersect", <<>>)>>
    /\ UNCHANGED <<self, other>>

\* self.inverse(), or .inverse() chained on the value the first one returned
Inverse ==
    /\ Fns \in {<<>>, <<"inverse">>}
    /\ ret' = MultiInterval_inverse(IF calls = <<>> THEN self ELSE ret)
    /\ calls' = Append(calls, Call("inverse", <<>>))
    /\ UNCHANGED <<self, other>>

\* the value self.inverse() returned is passed as the argument of the next call
AsOther ==
    /\ Fns = <<"inverse">>
    /\ other' = ret
    /\ calls' = Append(calls, Call("as_other", <<>>))
    /\ UNCHANGED <<self, ret>>

\* self.intersects_with(&other) on two MultiIntervals
IntersectsWith ==
    /\ Fns \in {<<>>, <<"inverse", "as_other">>}
    /\ ret' = MultiInterval_intersects_with(self, other)
    /\ calls' = Append(calls, Call("intersects_with", <<>>))
    /\ UNCHANGED <<self, other>>

\* self.intersect(&other) on two MultiIntervals
Intersect ==
    /\ Fns \in {<<>>, <<"inverse", "as_other">>}
    /\ ret' \in MultiInterval_intersect(self, other)
    /\ calls' = Append(calls, Call("intersect", <<>>))
    /\ UNCHANGED <<self, other>>

(* -------------------------- specifications ----------------------------- *)

\* construction: no receiver, every combination of arguments
InitNew ==
    /\ self = <<>>
    /\ other = <<>>
    /\ ret = None
    /\ calls = <<>>

NextNew == IntervalNew \/ MultiIntervalNew

SpecNew == InitNew /\ [][NextNew]_vars

\* the Interval operations on every pair of valid Intervals
InitInterval ==
    /\ self \in ValidInterval
    /\ other \in ValidInterval
    /\ ret = None
    /\ calls = <<>>

NextInterval == IntervalIntersectsWith \/ IntervalIntersect

SpecInterval == InitInterval /\ [][NextInterval]_vars

\* the expressions of test_MultiInterval_axioms on every MultiInterval of at
\* most MaxLen valid Intervals that satisfies the invariant: inverse().inverse(), intersect(&(-Inf, Inf)),
\* intersects_with(&inverse()), intersect(&inverse())
Init ==
    /\ self = <<>>
    /\ other = <<Full>>
    /\ ret = None
    /\ calls = <<>>

Next == Push \/ Inverse \/ AsOther \/ IntersectsWith \/ Intersect

Spec == Init /\ [][Next]_vars

\* the two-operand operations on every pair of MultiIntervals of at most
\* MaxSelfLen and MaxOtherLen valid Intervals that satisfy the invariant
InitPair ==
    /\ self = <<>>
    /\ other = <<>>
    /\ ret = None
    /\ calls = <<>>

NextPair == PushSelf \/ PushOther \/ IntersectsWith \/ Intersect

SpecPair == InitPair /\ [][NextPair]_vars

(* ------------------------------ claims --------------------------------- *)

\* C1: when two Intervals intersect and their lo values are equal, the lo
\* boundary of self.intersect(other) is Closed exactly when both lo boundaries
\* are Closed; likewise for equal hi values and the hi boundary.
C1_TieBoundaryIsAnd ==
    (Fns = <<"Interval::intersect">> /\ ret.some) =>
        /\ self.lo = other.lo =>
              (ret.val.lo_boundary = Closed <=>
                  (self.lo_boundary = Closed /\ other.lo_boundary = Closed))
        /\ self.hi = other.hi =>
              (ret.val.hi_boundary = Closed <=>
                  (self.hi_boundary = Closed /\ other.hi_boundary = Closed))

\* C6: Interval::intersects_with is false exactly in the four listed cases,
\* and two Intervals that only touch at one shared endpoint value intersect
\* iff both boundaries at that value are Closed.
C6_IntersectsWithExact ==
    Fns = <<"Interval::intersects_with">> =>
        /\ ret = FALSE <=>
              \/ self.lo > other.hi
              \/ other.lo > self.hi
              \/ (self.lo = other.hi /\ Open \in {self.lo_boundary, other.hi_boundary})
              \/ (other.lo = self.hi /\ Open \in {other.lo_boundary, self.hi_boundary})
        /\ (self.hi = other.lo /\ self.lo # other.hi) =>
              (ret = TRUE <=> (self.hi_boundary = Closed /\ other.lo_boundary = Closed))
        /\ (other.hi = self.lo /\ other.lo # self.hi) =>
              (ret = TRUE <=> (other.hi_boundary = Closed /\ self.lo_boundary = Closed))

C6_Witness ==
    /\ Fns = <<"Interval::intersects_with">>
    /\ self.lo < self.hi
    /\ self.hi = other.lo
    /\ other.lo < other.hi
    /\ self.hi_boundary = Closed
    /\ other.lo_boundary = Closed
    /\ ret = TRUE

\* C7: Interval::new and MultiInterval::new return LoIsGreaterThanHi iff
\* lo > hi, and otherwise return exactly the given boundaries and endpoints.
C7_NewFailsIffLoGreaterThanHi ==
    Fns \in {<<"Interval::new">>, <<"MultiInterval::new">>} =>
        LET a == calls[1].args
            given == [lo_boundary |-> a[1], lo |-> a[2], hi |-> a[3], hi_boundary |-> a[4]]
        IN  /\ ~ ret.ok <=> a[2] > a[3]
            /\ ~ ret.ok => ret.err = "LoIsGreaterThanHi"
            /\ ret.ok =>
                  IF Fns = <<"Interval::new">>
                  THEN ret.val = given
                  ELSE ret.val = <<given>>

C7_Witness ==
    /\ Fns = <<"MultiInterval::new">>
    /\ calls[1].args = <<Closed, f32_INFINITY, f32_INFINITY, Closed>>
    /\ ret.ok
    /\ ret.val[1].hi_boundary = Closed

\* every Interval of m has lo < hi
Proper(m) == \A i \in 1 .. Len(m) : m[i].lo < m[i].hi

\* an Interval with both endpoints at the same infinity
AtInfinity(iv) == iv.lo = iv.hi /\ iv.lo \in {f32_NEG_INFINITY, f32_INFINITY}

C3_InvariantOnExit ==
    /\ (Fns = <<"inverse">> /\ Invariant(self)) => Invariant(ret)
    /\ (Fns = <<"intersect">> /\ Invariant(self) /\ Invariant(other) /\ ret.some) =>
          Invariant(ret.val)

\* C4: for every MultiInterval S satisfying the invariant,
\* S.intersects_with(&S.inverse()) is false and S.intersect(&S.inverse()) is None.
C4_DisjointFromInverse ==
    /\ (Fns = <<"inverse", "as_other", "intersects_with">> /\ Invariant(self)) =>
          ret = FALSE
    /\ (Fns = <<"inverse", "as_other", "intersect">> /\ Invariant(self)) =>
          ret = None

C10_EmptyAndFull ==
    /\ (Fns = <<"inverse">> /\ self = <<>>) =>
          ret = <<[lo_boundary |-> Open, lo |-> f32_NEG_INFINITY,
                   hi |-> f32_INFINITY, hi_boundary |-> Open]>>
    /\ (Fns = <<"inverse">>
        /\ self = <<[lo_boundary |-> Open, lo |-> f32_NEG_INFINITY,
                     hi |-> f32_INFINITY, hi_boundary |-> Open]>>) =>
          ret = <<>>
    /\ (Fns = <<"inverse", "inverse">> /\ self = <<>>) => ret = <<>>

C10_Witness ==
    /\ Fns = <<"inverse", "inverse">>
    /\ self = <<>>
    /\ ret = <<>>

\* the pairs (i, j) whose Intervals self[i] and other[j] intersect
IntersectingPairs ==
    {pr \in (1 .. Len(self)) \X (1 .. Len(other)) :
        Interval_intersects_with(self[pr[1]], other[pr[2]])}

\* C8: MultiInterval::intersect never returns Some of an empty sequence; it
\* returns None exactly when no Interval of self intersects an Interval of
\* other, i.e. exactly when self.intersects_with(other) is false.
C8_NoneIffDisjoint ==
    Fns = <<"intersect">> =>
        /\ ret.some => Len(ret.val) >= 1
        /\ ~ ret.some <=> IntersectingPairs = {}
        /\ ~ ret.some <=> ~ MultiInterval_intersects_with(self, other)

C8_Witness ==
    /\ Fns = <<"intersect">>
    /\ Len(self) = 2
    /\ Len(other) = 1
    /\ Proper(self)
    /\ Proper(other)
    /\ ret = None

\* C9: a present result of self.intersect(other) holds exactly one Interval
\* x.intersect(y) for each pair (x in self, y in other) that intersects, and
\* nothing else, in ascending order of lo.
C9_PairwiseSorted ==
    (Fns = <<"intersect">> /\ ret.some) =>
        /\ Len(ret.val) = Cardinality(IntersectingPairs)
        /\ \A v \in {ret.val[k] : k \in 1 .. Len(ret.val)}
                 \cup {Interval_intersect(self[pr[1]], other[pr[2]]).val :
                          pr \in IntersectingPairs} :
              Cardinality({k \in 1 .. Len(ret.val) : ret.val[k] = v})
                = Cardinality({pr \in IntersectingPairs :
                      Interval_intersect(self[pr[1]], other[pr[2]]).val = v})
        /\ \A k \in 1 .. (Len(ret.val) - 1) : ret.val[k].lo <= ret.val[k + 1].lo

\* the receiver-major order of the pairwise intersections is not ascending,
\* and the returned sequence is
C9_Witness ==
    /\ Fns = <<"intersect">>
    /\ ret.some
    /\ Len(ret.val) = 3
    /\ \E i \in 1 .. 2 : pairwise(self, other)[i].lo > pairwise(self, other)[i + 1].lo
    /\ ret.val[1].lo <= ret.val[2].lo
    /\ ret.val[2].lo <= ret.val[3].lo

\* the finite values
Finite == 0 .. MaxVal

\* some Interval of m contains the point v, per Interval::contains_point
Covers(m, v) == \E i \in 1 .. Len(m) : Interval_contains_point(m[i], v)

\* C11: for every MultiInterval S satisfying the invariant and every finite
\* value v, v is contained in some Interval of S.inverse() iff v is contained
\* in no Interval of S.
C11_InverseIsComplement ==
    (Fns = <<"inverse">> /\ Invariant(self)) =>
        \A v \in Finite : Covers(ret, v) <=> ~ Covers(self, v)

\* C12: when every endpoint at an infinity of the input(s) has an Open
\* boundary (and the inputs satisfy the invariant), so has every endpoint at
\* an infinity of what MultiInterval::inverse, MultiInterval::intersect and
\* Interval::intersect return.
C12_ConventionPreserved ==
    /\ (Fns = <<"inverse">> /\ Invariant(self) /\ Convention(self)) =>
          Convention(ret)
    /\ (/\ Fns = <<"intersect">>
        /\ Invariant(self) /\ Convention(self)
        /\ Invariant(other) /\ Convention(other)
        /\ ret.some) =>
          Convention(ret.val)
    /\ (/\ Fns = <<"Interval::intersect">>
        /\ Convention(<<self>>)
        /\ Convention(<<other>>)
        /\ ret.some) =>
          Convention(<<ret.val>>)

====
